---- MODULE Spec2Model ----
(***************************************************************************)
(* Client session of the Employee Attendance mobile app:                   *)
(*   ApiService   (mobile_app/src/services/ApiService.ts)                  *)
(*   AuthContext  (mobile_app/src/contexts/AuthContext.tsx)                *)
(*   WebSocketService (mobile_app/src/services/WebSocketService.ts)        *)
(*                                                                         *)
(* JavaScript runs one handler at a time: an action of this module is one  *)
(* macrotask, i.e. the code from the arrival of an event (a server         *)
(* answer, the completion of an AsyncStorage operation) up to the next     *)
(* await, together with the promise continuations it makes runnable.       *)
(* AsyncStorage applies its operations in the order they are issued: a     *)
(* write takes effect, and a read takes its value, when the operation is   *)
(* issued; the awaiting code resumes in a later action.                    *)
(***************************************************************************)
EXTENDS Integers, Sequences, FiniteSets, TLC

\* Number of business requests (checkIn, getNotifications, ...) the screens issue.
NumReq == 3
\* Cap on how often one request is put on the wire.
MaxSends == 3
\* Cap on the access tokens the server hands out (token 1 predates the run).
MaxTok == 3
\* Cap on the sockets the channel creates in one run.
MaxSock == 7
\* Callbacks the components subscribe, and cap on the subscribe calls.
NumCb == 2
MaxSubs == 3
\* Cap on the times NotificationProvider is mounted.
MaxMounts == 2
\* Cap on the connect() calls that throw.
MaxThrows == 1

\* WebSocketService.maxReconnectAttempts and reconnectInterval (ms).
maxReconnectAttempts == 5
reconnectInterval == 1000

Business == 1..NumReq
LoginCall == NumReq + 1
LogoutCall == NumReq + 2
Calls == 1..(NumReq + 2)

VARIABLES
    store,             \* AsyncStorage: auth_token, refresh_token, user_data (0 = absent)
    isRefreshing,      \* ApiService.isRefreshing
    failedQueue,       \* ApiService.failedQueue: the parked calls, in arrival order
    pc,                \* where each call is suspended
    retry,             \* originalRequest._retry of the call's request
    hdr,               \* Authorization header of the call's request (0 = none)
    sends,             \* how often the call's request went to the server
    got,               \* value the call's pending or last read/response delivered
    result,            \* what the pipeline handed to the caller
    issued,            \* last access token the server issued
    user,              \* AuthContext.user (0 = null)
    isAuthenticated,   \* AuthContext.isAuthenticated
    isLoading,         \* AuthContext.isLoading: AppNavigator shows only the LoadingScreen
    initPc,            \* AuthContext.initializeAuth
    initGot,
    isConnecting,      \* WebSocketService.isConnecting
    shouldReconnect,   \* WebSocketService.shouldReconnect
    ws,                \* WebSocketService.ws: "null" or the socket's readyState
    heartbeatInterval, \* WebSocketService.heartbeatInterval is set
    connects,          \* connect() calls suspended on their token read, in issue order:
                       \* the token each read delivers and who awaits the call
    reconnectAttempts, \* WebSocketService.reconnectAttempts
    timers,            \* pending reconnect timers: attempt number and delay (ms)
    detached,          \* live sockets with the service's handlers that this.ws no
                       \* longer references, counted by readyState
    created,           \* sockets created so far
    lastEvent,         \* last connection event the service emitted
    disconnected,      \* disconnect() was called and connect() has not been called since
    pingPending,       \* a ping went out on this.ws and no pong has come back
    missedPong,        \* a heartbeat interval elapsed with that ping unanswered
    listeners,         \* EventEmitter listeners of each event name, in registration order
    handles,           \* unsubscribe handles handed out: event, callback, called before
    delivered,         \* last frame handled: its type, the event emitted, the listeners
                       \* of that event at dispatch, the callbacks invoked, the payload
    observer,          \* a listener of 'error' is registered (onConnectionChange)
    wsAuth,            \* token and caller of the connect() that created this.ws
    schedTok,          \* access token stored when the last reconnect timer was armed
    thrown,            \* connect() calls that threw
    raised,            \* an exception has left one of the socket's handlers
    mounted,           \* NotificationProvider is mounted
    mounts,            \* times it was mounted
    released,          \* settlements of the current cycle's processQueue call, in order
    status,            \* HTTP status of the last answer to each call's request (0 = no response)
    atLogout,          \* waiters that were in failedQueue when logout() was called
    cycleCalls,        \* refresh-endpoint calls made in the current refresh cycle
    cyc,               \* part each call took in the latest refresh cycle
    cycleTok,          \* access token returned by the latest successful refresh
    relTok             \* token of the refresh that released the call's latest send

apiVars == <<store, isRefreshing, failedQueue, pc, retry, hdr, sends, got, result, issued>>
authVars == <<user, isAuthenticated, initPc, initGot>>
chanVars == <<reconnectAttempts, timers, detached, created, lastEvent, disconnected,
              pingPending, missedPong>>
routerVars == <<listeners, handles, delivered, mounted, mounts>>
obsVars == <<observer, raised, thrown>>
tokVars == <<wsAuth, schedTok>>
wsVars == <<isConnecting, shouldReconnect, ws, heartbeatInterval, connects, chanVars, routerVars,
           obsVars, tokVars>>
histVars == <<cycleCalls, cyc, cycleTok, relTok, atLogout, status, released>>
vars == <<apiVars, authVars, isLoading, wsVars, histVars>>

Empty == [auth_token |-> 0, refresh_token |-> 0, user_data |-> 0]
StoredSession(n) == [auth_token |-> n, refresh_token |-> n, user_data |-> n]

\* Positions of a call that is running a refresh cycle (isRefreshing is its flag).
CyclePcs == {"getRT", "refreshSent", "refreshParked", "setToken",
             "failGetTok", "failLogoutSent", "failLogoutParked", "failRemove"}
ParkedPcs == {"queued", "refreshParked", "failLogoutParked"}

Range(s) == {s[i] : i \in 1..Len(s)}

\* readyState values of a socket that can still fire events.
Alive == {"CONNECTING", "OPEN", "CLOSING"}
NoSockets == [st \in Alive |-> 0]
Callbacks == 1..NumCb

\* handleMessage: the frame types with a case of their own that emit an event.
Categories == {"notification", "attendance_update", "leave_update", "shift_update",
               "payroll_update", "system_message"}
\* Event names the router emits data on: the categories and, for any other
\* type, 'message'.
EventNames == Categories \cup {"message"}
\* What arrives on the socket: a frame of some type, or text that is not JSON.
FrameTypes == Categories \cup {"pong", "unknown", "malformed"}
\* Events the components of the run subscribe to.
SubEvents == {"notification", "leave_update", "message"}
NoFrame == [type |-> "none", event |-> "none", subs |-> <<>>, to |-> <<>>, payload |-> "none"]

Init ==
    /\ store \in {Empty, StoredSession(1)}
    /\ isRefreshing = FALSE
    /\ failedQueue = <<>>
    /\ pc = [c \in Calls |-> "idle"]
    /\ retry = [c \in Calls |-> FALSE]
    /\ hdr = [c \in Calls |-> 0]
    /\ sends = [c \in Calls |-> 0]
    /\ got = [c \in Calls |-> 0]
    /\ result = [c \in Calls |-> "none"]
    /\ status = [c \in Calls |-> 0]
    /\ released = <<>>
    /\ issued = 1
    /\ user = 0
    /\ isAuthenticated = FALSE
    /\ isLoading = TRUE
    /\ initPc = "isAuth"
    /\ initGot = store.auth_token
    /\ isConnecting = FALSE
    /\ shouldReconnect = TRUE
    /\ ws = "null"
    /\ heartbeatInterval = FALSE
    /\ connects = <<>>
    /\ reconnectAttempts = 0
    /\ timers = <<>>
    /\ detached = NoSockets
    /\ created = 0
    /\ lastEvent = "none"
    /\ disconnected = FALSE
    /\ pingPending = FALSE
    /\ missedPong = FALSE
    /\ listeners = [e \in EventNames |-> <<>>]
    /\ handles = <<>>
    /\ delivered = NoFrame
    /\ mounted = FALSE
    /\ observer = FALSE
    /\ raised = FALSE
    /\ thrown = 0
    /\ wsAuth = [tok |-> 0, caller |-> "none"]
    /\ schedTok = 0
    /\ mounts = 0
    /\ atLogout = {}
    /\ cycleCalls = 0
    /\ cyc = [c \in Calls |-> "no"]
    /\ cycleTok = 0
    /\ relTok = [c \in Calls |-> 0]

(***************************************************************************)
(* Helpers of the request pipeline                                         *)
(***************************************************************************)

\* Request interceptor: the stored token replaces the header only when there
\* is one; a replayed config otherwise keeps the header of its previous send.
Attach(h) == IF store.auth_token # 0 THEN store.auth_token ELSE h

\* A response interceptor without the isRefreshing test of line 72.
EnqueuesNever == FALSE

\* Response interceptor, line 72: a 401 that arrives while a refresh is in
\* progress is parked instead of starting a refresh.
Enqueues == isRefreshing

\* Where the caller continues once the pipeline has settled its request:
\* a screen is finished; ApiService.login stores the tokens on success and
\* rethrows otherwise; ApiService.logout swallows any error and runs its
\* finally block (multiRemove).
AfterPipeline(c, res) ==
    IF c \in Business THEN "done"
    ELSE IF c = LoginCall THEN (IF res = "ok" THEN "setAccess" ELSE "done")
    ELSE "loRemove"

\* Store after the caller's continuation has run: logout's finally block
\* issues multiRemove in the same macrotask.
SettleStore(S, st) == IF LogoutCall \in S THEN Empty ELSE st

\* failedQueue entries that processQueue releases.  An entry of the refresh
\* request or of the nested logout request belongs to the call running the
\* cycle, which is then parked itself and cannot call processQueue.
Waiters == {q \in Range(failedQueue) : pc[q] = "queued"}

\* A processQueue that walks the queue from its end.
processQueueBackwards(q, outcome) ==
    [i \in 1..Len(q) |-> [call |-> q[Len(q) + 1 - i], outcome |-> outcome]]

\* processQueue: forEach settles the entries from the first to the last, each
\* with the one outcome of the call (reject(error) or resolve).
processQueue(q, outcome) ==
    [i \in 1..Len(q) |-> [call |-> q[i], outcome |-> outcome]]

\* AuthContext.login's catch and finally blocks run when its pipeline fails.
SettleLoading(S) == IF LoginCall \in S THEN FALSE ELSE isLoading

\* WebSocketService.connect() returns at once (line 35).
ConnectSkips == isConnecting \/ ws = "OPEN"

\* A connect() that goes on using the token of the session as it started.
ConnectTokenFirst == IF store.auth_token = 0 THEN 0 ELSE 1

\* connect(), line 42: getItem('auth_token') is issued when connect() is
\* called and delivers what the store holds then.
ConnectToken == store.auth_token

\* WebSocketService.connect(), up to its first await; caller awaits it.
Connect(caller) ==
    IF ConnectSkips
    THEN UNCHANGED <<isConnecting, connects>>
    ELSE /\ isConnecting' = TRUE
         /\ connects' = Append(connects, [tok |-> ConnectToken, caller |-> caller])

\* this.ws.close() followed by this.ws = null: a socket that was connecting or
\* open is closing from now on and keeps its handlers until its close event.
Detach(d, st) == IF st \in {"CONNECTING", "OPEN"} THEN [d EXCEPT !["CLOSING"] = @ + 1] ELSE d

\* WebSocketService.disconnect()
Disconnect ==
    /\ shouldReconnect' = FALSE
    /\ heartbeatInterval' = FALSE
    /\ ws' = "null"
    /\ detached' = Detach(detached, ws)
    /\ disconnected' = TRUE
    /\ pingPending' = FALSE
    /\ missedPong' = FALSE
    /\ UNCHANGED <<isConnecting, connects, reconnectAttempts, timers, created, lastEvent>>
    /\ UNCHANGED routerVars

(***************************************************************************)
(* Callers                                                                 *)
(***************************************************************************)

\* A screen issues a business request: this.api.post/get runs the request
\* interceptor and puts the request on the wire.
Request(c) ==
    /\ c \in Business
    /\ pc[c] = "idle"
    /\ pc' = [pc EXCEPT ![c] = "sent"]
    /\ hdr' = [hdr EXCEPT ![c] = Attach(hdr[c])]
    /\ sends' = [sends EXCEPT ![c] = 1]
    /\ UNCHANGED <<store, isRefreshing, failedQueue, retry, got, result, issued>>
    /\ UNCHANGED <<authVars, isLoading, wsVars, histVars>>

\* AuthContext.login -> ApiService.login: POST /auth/login/ through the pipeline.
\* AppNavigator offers the login screen only while user is null.
AuthLogin ==
    /\ pc[LoginCall] = "idle"
    /\ ~isLoading
    /\ user = 0
    /\ isLoading' = TRUE
    /\ pc' = [pc EXCEPT ![LoginCall] = "sent"]
    /\ hdr' = [hdr EXCEPT ![LoginCall] = Attach(hdr[LoginCall])]
    /\ sends' = [sends EXCEPT ![LoginCall] = 1]
    /\ UNCHANGED <<store, isRefreshing, failedQueue, retry, got, result, issued>>
    /\ UNCHANGED <<authVars, wsVars, histVars>>

\* ApiService.login after setItem(TOKEN_KEY): issues setItem(REFRESH_TOKEN_KEY).
LoginStoreRefresh ==
    /\ pc[LoginCall] = "setAccess"
    /\ store' = [store EXCEPT !.refresh_token = got[LoginCall]]
    /\ pc' = [pc EXCEPT ![LoginCall] = "setRefresh"]
    /\ UNCHANGED <<isRefreshing, failedQueue, retry, hdr, sends, got, result, issued>>
    /\ UNCHANGED <<authVars, isLoading, wsVars, histVars>>

\* ApiService.login after setItem(REFRESH_TOKEN_KEY): issues setItem(USER_DATA_KEY).
LoginStoreUser ==
    /\ pc[LoginCall] = "setRefresh"
    /\ store' = [store EXCEPT !.user_data = got[LoginCall]]
    /\ pc' = [pc EXCEPT ![LoginCall] = "setUser"]
    /\ UNCHANGED <<isRefreshing, failedQueue, retry, hdr, sends, got, result, issued>>
    /\ UNCHANGED <<authVars, isLoading, wsVars, histVars>>

\* setItem(USER_DATA_KEY) completed: ApiService.login returns; AuthContext.login
\* sets the user and awaits connect(); its finally block follows at once when
\* connect() returns without suspending.
LoginStored ==
    /\ pc[LoginCall] = "setUser"
    /\ user' = got[LoginCall]
    /\ isAuthenticated' = TRUE
    /\ Connect("login")
    /\ disconnected' = FALSE
    /\ UNCHANGED <<shouldReconnect, ws, heartbeatInterval, routerVars, obsVars, tokVars>>
    /\ UNCHANGED <<reconnectAttempts, timers, detached, created, lastEvent, pingPending, missedPong>>
    /\ IF ConnectSkips
       THEN pc' = [pc EXCEPT ![LoginCall] = "done"] /\ isLoading' = FALSE
       ELSE pc' = [pc EXCEPT ![LoginCall] = "connect"] /\ isLoading' = isLoading
    /\ UNCHANGED <<store, isRefreshing, failedQueue, retry, hdr, sends, got, result, issued>>
    /\ UNCHANGED <<initPc, initGot, histVars>>

\* AuthContext.logout: disconnect(), then ApiService.logout reads the token.
\* AppNavigator offers the authenticated screens only while user is set.
AuthLogout ==
    /\ pc[LogoutCall] = "idle"
    /\ ~isLoading
    /\ user # 0
    /\ isLoading' = TRUE
    /\ Disconnect
    /\ got' = [got EXCEPT ![LogoutCall] = store.auth_token]
    /\ pc' = [pc EXCEPT ![LogoutCall] = "loGetTok"]
    /\ atLogout' = Waiters
    /\ UNCHANGED <<store, isRefreshing, failedQueue, retry, hdr, sends, result, issued>>
    /\ UNCHANGED <<authVars, cycleCalls, cyc, cycleTok, relTok, status, released, obsVars, tokVars>>

\* ApiService.logout after getItem(TOKEN_KEY): POST /auth/logout/ if there is
\* a token, else straight to the finally block.
LogoutGotToken ==
    /\ pc[LogoutCall] = "loGetTok"
    /\ IF got[LogoutCall] # 0
       THEN /\ pc' = [pc EXCEPT ![LogoutCall] = "sent"]
            /\ hdr' = [hdr EXCEPT ![LogoutCall] = Attach(hdr[LogoutCall])]
            /\ sends' = [sends EXCEPT ![LogoutCall] = 1]
            /\ store' = store
       ELSE /\ pc' = [pc EXCEPT ![LogoutCall] = "loRemove"]
            /\ store' = Empty
            /\ UNCHANGED <<hdr, sends>>
    /\ UNCHANGED <<isRefreshing, failedQueue, retry, got, result, issued>>
    /\ UNCHANGED <<authVars, isLoading, wsVars, histVars>>

\* multiRemove completed: ApiService.logout returns, AuthContext clears its state.
LogoutDone ==
    /\ pc[LogoutCall] = "loRemove"
    /\ pc' = [pc EXCEPT ![LogoutCall] = "done"]
    /\ user' = 0
    /\ isAuthenticated' = FALSE
    /\ isLoading' = FALSE
    /\ UNCHANGED <<store, isRefreshing, failedQueue, retry, hdr, sends, got, result, issued>>
    /\ UNCHANGED <<initPc, initGot, wsVars, histVars>>

\* AuthContext.initializeAuth after ApiService.isAuthenticated().
InitAuthChecked ==
    /\ initPc = "isAuth"
    /\ IF initGot # 0
       THEN initPc' = "getUser" /\ initGot' = store.user_data /\ isLoading' = isLoading
       ELSE initPc' = "done" /\ initGot' = initGot /\ isLoading' = FALSE
    /\ UNCHANGED <<apiVars, user, isAuthenticated, wsVars, histVars>>

\* AuthContext.initializeAuth after ApiService.getCurrentUser().
InitAuthLoaded ==
    /\ initPc = "getUser"
    /\ initGot' = initGot
    /\ IF initGot # 0
       THEN /\ user' = initGot
            /\ isAuthenticated' = TRUE
            /\ Connect("init")
            /\ disconnected' = FALSE
            /\ UNCHANGED <<shouldReconnect, ws, heartbeatInterval, routerVars, obsVars, tokVars>>
            /\ UNCHANGED <<reconnectAttempts, timers, detached, created, lastEvent, pingPending, missedPong>>
            /\ IF ConnectSkips
               THEN initPc' = "done" /\ isLoading' = FALSE
               ELSE initPc' = "connect" /\ isLoading' = isLoading
       ELSE /\ initPc' = "done"
            /\ isLoading' = FALSE
            /\ UNCHANGED <<user, isAuthenticated, wsVars>>
    /\ UNCHANGED <<apiVars, histVars>>

\* WebSocketService.connect after getItem('auth_token'): without a token it
\* gives up, else it creates the socket, stores it in this.ws and installs the
\* handlers; the socket this.ws referred to is not closed.  The caller that
\* awaited connect() then runs its finally block.
ConnectResume ==
    /\ connects # <<>>
    /\ connects' = Tail(connects)
    /\ IF Head(connects).tok = 0
       THEN /\ isConnecting' = FALSE
            /\ UNCHANGED <<ws, detached, created, pingPending, missedPong, wsAuth>>
       ELSE /\ ws' = "CONNECTING"
            /\ wsAuth' = Head(connects)
            /\ detached' = IF ws \in Alive THEN [detached EXCEPT ![ws] = @ + 1] ELSE detached
            /\ created' = created + 1
            /\ pingPending' = FALSE
            /\ missedPong' = FALSE
            /\ isConnecting' = isConnecting
    /\ pc' = IF Head(connects).caller = "login" THEN [pc EXCEPT ![LoginCall] = "done"] ELSE pc
    /\ initPc' = IF Head(connects).caller = "init" THEN "done" ELSE initPc
    /\ isLoading' = IF Head(connects).caller \in {"login", "init"} THEN FALSE ELSE isLoading
    /\ UNCHANGED <<shouldReconnect, heartbeatInterval, routerVars>>
    /\ UNCHANGED <<reconnectAttempts, timers, lastEvent, disconnected>>
    /\ UNCHANGED <<store, isRefreshing, failedQueue, retry, hdr, sends, got, result, issued>>
    /\ UNCHANGED <<user, isAuthenticated, initGot, histVars, obsVars, schedTok>>

(***************************************************************************)
(* Authenticated request pipeline: the response interceptor of             *)
(* ApiService.setupInterceptors, for the request of call c                 *)
(***************************************************************************)

\* 2xx: the response goes to the caller.  A login response carries a new
\* token pair; ApiService.login issues setItem(TOKEN_KEY, access) at once.
AnswerOk(c) ==
    /\ pc[c] = "sent"
    /\ c = LoginCall => issued < MaxTok
    /\ pc' = [pc EXCEPT ![c] = AfterPipeline(c, "ok")]
    /\ result' = [result EXCEPT ![c] = "ok"]
    /\ status' = [status EXCEPT ![c] = 200]
    /\ IF c = LoginCall
       THEN /\ issued' = issued + 1
            /\ got' = [got EXCEPT ![c] = issued + 1]
            /\ store' = [store EXCEPT !.auth_token = issued + 1]
       ELSE /\ store' = SettleStore({c}, store)
            /\ UNCHANGED <<issued, got>>
    /\ UNCHANGED <<isRefreshing, failedQueue, retry, hdr, sends>>
    /\ UNCHANGED <<authVars, isLoading, wsVars>>
    /\ UNCHANGED <<cycleCalls, cyc, cycleTok, relTok, atLogout, released>>

\* The failures a request can meet besides 401: a server error, or no
\* response at all (0).
OtherStatuses == {0, 500}

\* A response interceptor that takes every failure for an expired token.
InterceptsAll(st) == TRUE

\* Response interceptor, line 71: only a 401 is intercepted
\* (error.response?.status === 401).
Intercepts(st) == st = 401

\* Line 103: the interceptor rejects with the error as it came; the caller's
\* catch block logs it and rethrows it.
Rejected(c) ==
    /\ pc' = [pc EXCEPT ![c] = AfterPipeline(c, "error")]
    /\ result' = [result EXCEPT ![c] = "error"]
    /\ store' = SettleStore({c}, store)
    /\ UNCHANGED <<isRefreshing, failedQueue, retry, hdr, sends, got, issued>>
    /\ isLoading' = SettleLoading({c})
    /\ UNCHANGED <<authVars, wsVars>>
    /\ UNCHANGED <<cycleCalls, cyc, cycleTok, relTok, atLogout, released>>

\* An intercepted failure.  Already retried: line 103 rejects with the 401
\* error.  Refresh in progress: park (lines 72-80).  Otherwise mark the
\* request, raise the flag and read the refresh token (lines 82-86).
Intercepted(c) ==
    /\ retry[c] \/ sends[c] < MaxSends
    /\ IF retry[c]
       THEN /\ pc' = [pc EXCEPT ![c] = AfterPipeline(c, "raw401")]
            /\ result' = [result EXCEPT ![c] = "raw401"]
            /\ store' = SettleStore({c}, store)
            /\ isLoading' = SettleLoading({c})
            /\ UNCHANGED <<isRefreshing, failedQueue, retry, got>>
            /\ UNCHANGED <<cycleCalls, cyc, cycleTok, relTok, atLogout, released>>
       ELSE IF Enqueues
       THEN /\ failedQueue' = Append(failedQueue, c)
            /\ pc' = [pc EXCEPT ![c] = "queued"]
            /\ cyc' = [cyc EXCEPT ![c] = "pending"]
            /\ UNCHANGED <<store, isRefreshing, retry, got, result, isLoading>>
            /\ UNCHANGED <<cycleCalls, cycleTok, relTok, atLogout, released>>
       ELSE /\ retry' = [retry EXCEPT ![c] = TRUE]
            /\ isRefreshing' = TRUE
            /\ got' = [got EXCEPT ![c] = store.refresh_token]
            /\ pc' = [pc EXCEPT ![c] = "getRT"]
            /\ cycleCalls' = 0
            /\ released' = <<>>
            /\ cyc' = [q \in Calls |->
                         IF q = c THEN "pending"
                         ELSE IF q \in Range(failedQueue) THEN cyc[q] ELSE "no"]
            /\ UNCHANGED <<store, failedQueue, result, isLoading, cycleTok, relTok, atLogout>>
    /\ UNCHANGED <<hdr, sends, issued>>
    /\ UNCHANGED <<authVars, wsVars>>

\* Any status other than 401, or no response at all, enters the error branch
\* of the response interceptor.
AnswerError(c) ==
    \E st \in OtherStatuses :
        /\ pc[c] = "sent"
        /\ status' = [status EXCEPT ![c] = st]
        /\ IF Intercepts(st) THEN Intercepted(c) ELSE Rejected(c)

\* 401 enters the error branch of the response interceptor.
Answer401(c) ==
    /\ pc[c] = "sent"
    /\ status' = [status EXCEPT ![c] = 401]
    /\ IF Intercepts(401) THEN Intercepted(c) ELSE Rejected(c)

\* getItem(REFRESH_TOKEN_KEY) completed (line 87).  With a refresh token:
\* refreshAuthToken posts to /auth/token/refresh/ through this.api.  Without:
\* the try block is left, finally lowers the flag, line 103 rejects with the
\* 401 error; processQueue is not called.
GotRefreshToken(c) ==
    /\ pc[c] = "getRT"
    /\ IF got[c] # 0
       THEN /\ pc' = [pc EXCEPT ![c] = "refreshSent"]
            /\ cycleCalls' = cycleCalls + 1
            /\ UNCHANGED <<store, isRefreshing, result, cyc, isLoading>>
       ELSE /\ isRefreshing' = FALSE
            /\ pc' = [pc EXCEPT ![c] = AfterPipeline(c, "raw401")]
            /\ result' = [result EXCEPT ![c] = "raw401"]
            /\ store' = SettleStore({c}, store)
            /\ isLoading' = SettleLoading({c})
            /\ cyc' = [cyc EXCEPT ![c] = "failed"]
            /\ cycleCalls' = cycleCalls
    /\ UNCHANGED <<failedQueue, retry, hdr, sends, got, issued>>
    /\ UNCHANGED <<authVars, wsVars, cycleTok, relTok, atLogout, status, released>>

\* A refresh that stores the token it got under both token keys.
StoreRefreshedPair(st, access) == [st EXCEPT !.auth_token = access, !.refresh_token = access]

\* Line 89: setItem(TOKEN_KEY, newToken.access), and no other key.
StoreRefreshed(st, access) == [st EXCEPT !.auth_token = access]

\* The refresh endpoint answers 2xx: line 89 issues setItem(TOKEN_KEY, access).
RefreshOk(c) ==
    /\ pc[c] = "refreshSent"
    /\ issued < MaxTok
    /\ issued' = issued + 1
    /\ store' = StoreRefreshed(store, issued + 1)
    /\ cycleTok' = issued + 1
    /\ pc' = [pc EXCEPT ![c] = "setToken"]
    /\ UNCHANGED <<isRefreshing, failedQueue, retry, hdr, sends, got, result>>
    /\ UNCHANGED <<authVars, isLoading, wsVars, cycleCalls, cyc, relTok, atLogout, status, released>>

\* The refresh endpoint answers 401.  The refresh request went through
\* this.api, so the response interceptor handles it: its config has no
\* _retry and isRefreshing is true, so it is parked in failedQueue.
Refresh401(c) ==
    /\ pc[c] = "refreshSent"
    /\ Enqueues
    /\ failedQueue' = Append(failedQueue, c)
    /\ pc' = [pc EXCEPT ![c] = "refreshParked"]
    /\ UNCHANGED <<store, isRefreshing, retry, hdr, sends, got, result, issued>>
    /\ UNCHANGED <<authVars, isLoading, wsVars, histVars>>

\* The refresh endpoint fails otherwise: catch block, lines 95-96.
\* processQueue(refreshError) rejects the waiters; this.logout() issues its
\* token read; then the rejected callers continue.
RefreshError(c) ==
    /\ pc[c] = "refreshSent"
    /\ failedQueue' = <<>>
    /\ got' = [got EXCEPT ![c] = store.auth_token]
    /\ pc' = [q \in Calls |->
                IF q = c THEN "failGetTok"
                ELSE IF q \in Waiters THEN AfterPipeline(q, "refreshError")
                ELSE pc[q]]
    /\ result' = [q \in Calls |-> IF q \in Waiters THEN "refreshError" ELSE result[q]]
    /\ cyc' = [q \in Calls |-> IF q \in Waiters THEN "failed" ELSE cyc[q]]
    /\ store' = SettleStore(Waiters, store)
    /\ UNCHANGED <<isRefreshing, retry, hdr, sends, issued>>
    /\ isLoading' = SettleLoading(Waiters)
    /\ released' = processQueue(failedQueue, "rejected")
    /\ UNCHANGED <<authVars, wsVars, cycleCalls, cycleTok, relTok, atLogout, status>>

\* setItem(TOKEN_KEY) completed: lines 91-92 and finally.  processQueue(null)
\* resolves the waiters, each of which replays its request; the refreshing
\* request is replayed; the flag is lowered.
RefreshStored(c) ==
    /\ pc[c] = "setToken"
    /\ failedQueue' = <<>>
    /\ isRefreshing' = FALSE
    /\ pc' = [q \in Calls |-> IF q = c \/ q \in Waiters THEN "sent" ELSE pc[q]]
    /\ hdr' = [q \in Calls |-> IF q = c \/ q \in Waiters THEN Attach(hdr[q]) ELSE hdr[q]]
    /\ sends' = [q \in Calls |-> IF q = c \/ q \in Waiters THEN sends[q] + 1 ELSE sends[q]]
    /\ cyc' = [q \in Calls |-> IF q = c \/ q \in Waiters THEN "replayed" ELSE cyc[q]]
    /\ relTok' = [q \in Calls |-> IF q = c \/ q \in Waiters THEN cycleTok ELSE relTok[q]]
    /\ released' = processQueue(failedQueue, "resolved")
    /\ UNCHANGED <<store, retry, got, result, issued>>
    /\ UNCHANGED <<authVars, isLoading, wsVars, cycleCalls, cycleTok, atLogout, status>>

\* this.logout() of the catch block, after getItem(TOKEN_KEY).
FailLogoutGotToken(c) ==
    /\ pc[c] = "failGetTok"
    /\ IF got[c] # 0
       THEN pc' = [pc EXCEPT ![c] = "failLogoutSent"] /\ store' = store
       ELSE pc' = [pc EXCEPT ![c] = "failRemove"] /\ store' = Empty
    /\ UNCHANGED <<isRefreshing, failedQueue, retry, hdr, sends, got, result, issued>>
    /\ UNCHANGED <<authVars, isLoading, wsVars, histVars>>

\* The logout endpoint answers this.logout() with anything but 401: the
\* error, if any, is logged; finally issues multiRemove.
FailLogoutAnswered(c) ==
    /\ pc[c] = "failLogoutSent"
    /\ pc' = [pc EXCEPT ![c] = "failRemove"]
    /\ store' = Empty
    /\ UNCHANGED <<isRefreshing, failedQueue, retry, hdr, sends, got, result, issued>>
    /\ UNCHANGED <<authVars, isLoading, wsVars, histVars>>

\* The logout endpoint answers this.logout() with 401: the response
\* interceptor parks the logout request, as isRefreshing is still true.
FailLogout401(c) ==
    /\ pc[c] = "failLogoutSent"
    /\ Enqueues
    /\ failedQueue' = Append(failedQueue, c)
    /\ pc' = [pc EXCEPT ![c] = "failLogoutParked"]
    /\ UNCHANGED <<store, isRefreshing, retry, hdr, sends, got, result, issued>>
    /\ UNCHANGED <<authVars, isLoading, wsVars, histVars>>

\* multiRemove of this.logout() completed: line 97 rejects with the refresh
\* error, finally lowers the flag.
FailRemoved(c) ==
    /\ pc[c] = "failRemove"
    /\ isRefreshing' = FALSE
    /\ pc' = [pc EXCEPT ![c] = AfterPipeline(c, "refreshError")]
    /\ result' = [result EXCEPT ![c] = "refreshError"]
    /\ store' = SettleStore({c}, store)
    /\ cyc' = [cyc EXCEPT ![c] = "failed"]
    /\ UNCHANGED <<failedQueue, retry, hdr, sends, got, issued>>
    /\ isLoading' = SettleLoading({c})
    /\ UNCHANGED <<authVars, wsVars, cycleCalls, cycleTok, relTok, atLogout, status, released>>

(***************************************************************************)
(* Realtime channel: WebSocketService                                      *)
(***************************************************************************)

\* A reconnect delay that grows linearly.
DelayLinear(n) == reconnectInterval * n

\* handleReconnect, line 169: delay before reconnect attempt n.
Delay(n) == reconnectInterval * 2^(n - 1)

\* A handleReconnect without the test of line 162.
ExhaustedNever == FALSE

\* handleReconnect, line 162.
Exhausted == reconnectAttempts >= maxReconnectAttempts

\* handleReconnect(): emit the terminal event, or count the attempt and arm
\* the timer.
HandleReconnect(ev) ==
    IF Exhausted
    THEN /\ lastEvent' = "max_reconnect_attempts_reached"
         /\ UNCHANGED <<reconnectAttempts, timers, schedTok>>
    ELSE /\ reconnectAttempts' = reconnectAttempts + 1
         /\ schedTok' = store.auth_token
         /\ timers' = Append(timers, [n |-> reconnectAttempts + 1,
                                      delay |-> Delay(reconnectAttempts + 1)])
         /\ lastEvent' = ev

\* An onopen handler that leaves the attempt counter alone.
OnOpenKeepsAttempts ==
    /\ isConnecting' = FALSE
    /\ heartbeatInterval' = TRUE
    /\ lastEvent' = "connected"
    /\ UNCHANGED <<shouldReconnect, timers, reconnectAttempts>>

\* ws.onopen
OnOpen ==
    /\ isConnecting' = FALSE
    /\ reconnectAttempts' = 0
    /\ heartbeatInterval' = TRUE
    /\ lastEvent' = "connected"
    /\ UNCHANGED <<shouldReconnect, timers>>

\* ws.onclose: lower isConnecting, stop the heartbeat, emit 'disconnected',
\* and reconnect if the service is meant to.
OnClose ==
    /\ isConnecting' = FALSE
    /\ heartbeatInterval' = FALSE
    /\ IF shouldReconnect
       THEN HandleReconnect("disconnected")
       ELSE lastEvent' = "disconnected" /\ UNCHANGED <<reconnectAttempts, timers, schedTok>>
    /\ UNCHANGED shouldReconnect

\* The transport of this.ws opens.
SocketOpens ==
    /\ ws = "CONNECTING"
    /\ ws' = "OPEN"
    /\ OnOpen
    /\ UNCHANGED <<connects, detached, created, disconnected, pingPending, missedPong, routerVars>>
    /\ UNCHANGED <<apiVars, authVars, isLoading, histVars, obsVars, tokVars>>

\* EventEmitter.emit('error') throws when no listener of 'error' is registered.
EmitErrorThrows == ~observer

\* The transport of this.ws fails: its error event, then its close event.
\* ws.onerror lowers isConnecting and emits 'error'; ws.onclose follows.
SocketFails ==
    /\ ws \in {"CONNECTING", "OPEN"}
    /\ ws' = "CLOSED"
    /\ raised' = (raised \/ EmitErrorThrows)
    /\ OnClose
    /\ pingPending' = FALSE
    /\ missedPong' = FALSE
    /\ UNCHANGED <<connects, detached, created, disconnected, routerVars, observer, thrown>>
    /\ UNCHANGED <<apiVars, authVars, isLoading, histVars, wsAuth>>

\* The application registers a connection-status observer
\* (onConnectionChange): listeners of 'connected', 'disconnected' and 'error'.
ObserveConnection ==
    /\ ~observer
    /\ observer' = TRUE
    /\ UNCHANGED <<isConnecting, shouldReconnect, ws, heartbeatInterval, connects, chanVars,
                   routerVars, raised, thrown>>
    /\ UNCHANGED <<apiVars, authVars, isLoading, histVars, tokVars>>

\* connect() throws after its first await (getItem rejects, or the WebSocket
\* constructor throws): the catch block lowers isConnecting and calls
\* handleReconnect(), whatever shouldReconnect says.
ConnectThrows ==
    /\ connects # <<>>
    /\ thrown < MaxThrows
    /\ thrown' = thrown + 1
    /\ connects' = Tail(connects)
    /\ isConnecting' = FALSE
    /\ HandleReconnect(lastEvent)
    /\ pc' = IF Head(connects).caller = "login" THEN [pc EXCEPT ![LoginCall] = "done"] ELSE pc
    /\ initPc' = IF Head(connects).caller = "init" THEN "done" ELSE initPc
    /\ isLoading' = IF Head(connects).caller \in {"login", "init"} THEN FALSE ELSE isLoading
    /\ UNCHANGED <<shouldReconnect, ws, heartbeatInterval, routerVars, observer, raised>>
    /\ UNCHANGED <<detached, created, disconnected, pingPending, missedPong>>
    /\ UNCHANGED <<store, isRefreshing, failedQueue, retry, hdr, sends, got, result, issued>>
    /\ UNCHANGED <<user, isAuthenticated, initGot, histVars, wsAuth>>

\* The transport of this.ws is closed by the server.
SocketCloses ==
    /\ ws \in {"CONNECTING", "OPEN"}
    /\ ws' = "CLOSED"
    /\ OnClose
    /\ pingPending' = FALSE
    /\ missedPong' = FALSE
    /\ UNCHANGED <<connects, detached, created, disconnected, routerVars>>
    /\ UNCHANGED <<apiVars, authVars, isLoading, histVars, obsVars, wsAuth>>

\* A connecting socket that this.ws no longer references opens: its onopen
\* handler runs on the service all the same.
DetachedOpens ==
    /\ detached["CONNECTING"] > 0
    /\ detached' = [detached EXCEPT !["CONNECTING"] = @ - 1, !["OPEN"] = @ + 1]
    /\ OnOpen
    /\ UNCHANGED <<ws, connects, created, disconnected, pingPending, missedPong, routerVars>>
    /\ UNCHANGED <<apiVars, authVars, isLoading, histVars, obsVars, tokVars>>

\* A socket that this.ws no longer references closes: close() of
\* disconnect() completes, or its transport fails.
DetachedCloses(st) ==
    /\ detached[st] > 0
    /\ detached' = [detached EXCEPT ![st] = @ - 1]
    /\ OnClose
    /\ UNCHANGED <<ws, connects, created, disconnected, pingPending, missedPong, routerVars>>
    /\ UNCHANGED <<apiVars, authVars, isLoading, histVars, obsVars, wsAuth>>

\* A reconnect timer fires (lines 173-177).
TimerFires(i) ==
    /\ i \in 1..Len(timers)
    /\ created + Len(connects) < MaxSock
    /\ timers' = SubSeq(timers, 1, i - 1) \o SubSeq(timers, i + 1, Len(timers))
    /\ IF shouldReconnect THEN Connect("timer") ELSE UNCHANGED <<isConnecting, connects>>
    /\ UNCHANGED <<shouldReconnect, ws, heartbeatInterval, routerVars>>
    /\ UNCHANGED <<reconnectAttempts, detached, created, lastEvent, disconnected, pingPending, missedPong>>
    /\ UNCHANGED <<apiVars, authVars, isLoading, histVars, obsVars, tokVars>>

\* The heartbeat interval elapses (lines 183-187): a ping goes out if this.ws
\* is open.  Whether the previous ping was answered is not looked at.
HeartbeatTick ==
    /\ heartbeatInterval
    /\ IF ws = "OPEN"
       THEN pingPending' = TRUE /\ missedPong' = pingPending
       ELSE UNCHANGED <<pingPending, missedPong>>
    /\ UNCHANGED <<isConnecting, shouldReconnect, ws, heartbeatInterval, connects, routerVars>>
    /\ UNCHANGED <<reconnectAttempts, timers, detached, created, lastEvent, disconnected>>
    /\ UNCHANGED <<apiVars, authVars, isLoading, histVars, obsVars, tokVars>>

\* The server answers the ping: handleMessage, case 'pong', does nothing.
Pong ==
    /\ ws = "OPEN"
    /\ pingPending
    /\ pingPending' = FALSE
    /\ missedPong' = FALSE
    /\ UNCHANGED <<isConnecting, shouldReconnect, ws, heartbeatInterval, connects, routerVars>>
    /\ UNCHANGED <<reconnectAttempts, timers, detached, created, lastEvent, disconnected>>
    /\ UNCHANGED <<apiVars, authVars, isLoading, histVars, obsVars, tokVars>>

\* The application calls connect() (AuthContext.login, initializeAuth).
CallConnect ==
    /\ created + Len(connects) < MaxSock
    /\ Connect("app")
    /\ disconnected' = FALSE
    /\ UNCHANGED <<shouldReconnect, ws, heartbeatInterval, routerVars>>
    /\ UNCHANGED <<reconnectAttempts, timers, detached, created, lastEvent, pingPending, missedPong>>
    /\ UNCHANGED <<apiVars, authVars, isLoading, histVars, obsVars, tokVars>>

\* The application calls disconnect() (AuthContext.logout).
CallDisconnect ==
    /\ Disconnect
    /\ UNCHANGED <<apiVars, authVars, isLoading, histVars, obsVars, tokVars>>

(***************************************************************************)
(* Message router: the EventEmitter side of WebSocketService               *)
(***************************************************************************)

\* Callbacks that throw when they are invoked.
Throwers == {1}

\* EventEmitter.off(event, cb): removes the most recently added instance of
\* cb from the listener array, if there is one.
RemoveLast(seq, cb) ==
    IF cb \notin Range(seq) THEN seq
    ELSE LET i == CHOOSE k \in 1..Len(seq) :
                      seq[k] = cb /\ \A m \in (k + 1)..Len(seq) : seq[m] # cb
         IN SubSeq(seq, 1, i - 1) \o SubSeq(seq, i + 1, Len(seq))

\* EventEmitter.emit(event, data): the listeners are called in registration
\* order; an exception thrown by one leaves emit at once.
Invoked(seq) ==
    IF \E k \in 1..Len(seq) : seq[k] \in Throwers
    THEN SubSeq(seq, 1, CHOOSE k \in 1..Len(seq) :
                            seq[k] \in Throwers /\ \A m \in 1..(k - 1) : seq[m] \notin Throwers)
    ELSE seq

\* The callback NotificationProvider registers (handleNewNotification and the
\* loggers of the other categories).
ProviderCb == 0

\* The categories NotificationProvider subscribes to (setupWebSocketListeners).
ProviderEvents == {"notification", "attendance_update", "leave_update", "shift_update",
                   "payroll_update"}

\* NotificationProvider mounts: its effect runs setupWebSocketListeners, which
\* registers one callback per category and drops the handles it gets back.
Mount ==
    /\ ~mounted
    /\ mounts < MaxMounts
    /\ mounted' = TRUE
    /\ mounts' = mounts + 1
    /\ listeners' = [e \in EventNames |->
                        IF e \in ProviderEvents THEN Append(listeners[e], ProviderCb)
                        ELSE listeners[e]]
    /\ UNCHANGED <<isConnecting, shouldReconnect, ws, heartbeatInterval, connects, chanVars>>
    /\ UNCHANGED <<handles, delivered>>
    /\ UNCHANGED <<apiVars, authVars, isLoading, histVars, obsVars, tokVars>>

\* NotificationProvider unmounts: the cleanup of its effect calls
\* cleanupListeners, whose body is empty.
Unmount ==
    /\ mounted
    /\ mounted' = FALSE
    /\ UNCHANGED <<isConnecting, shouldReconnect, ws, heartbeatInterval, connects, chanVars>>
    /\ UNCHANGED <<listeners, handles, delivered, mounts>>
    /\ UNCHANGED <<apiVars, authVars, isLoading, histVars, obsVars, tokVars>>

\* handleMessage: the event a frame of type t is emitted on, if any.
EventOf(t) ==
    IF t \in Categories THEN t
    ELSE IF t = "unknown" THEN "message"
    ELSE "none"

\* handleMessage: what the listeners are handed: message.data in the cases of
\* the categories, the whole message in the default case.
PayloadOf(t) ==
    IF t \in Categories THEN "data"
    ELSE IF t = "unknown" THEN "frame"
    ELSE "none"

\* onNotification(cb) and the other subscribe helpers, or on(e, cb) of the
\* EventEmitter: the callback is registered and the handle
\* () => this.off(e, cb) is returned.
Subscribe(e, cb) ==
    /\ Len(handles) < MaxSubs
    /\ listeners' = [listeners EXCEPT ![e] = Append(@, cb)]
    /\ handles' = Append(handles, [ev |-> e, cb |-> cb, used |-> FALSE])
    /\ UNCHANGED <<isConnecting, shouldReconnect, ws, heartbeatInterval, connects, chanVars, delivered, mounted, mounts>>
    /\ UNCHANGED <<apiVars, authVars, isLoading, histVars, obsVars, tokVars>>

\* The component calls the handle h it was given.
Unsubscribe(h) ==
    /\ h \in 1..Len(handles)
    /\ listeners' = [listeners EXCEPT ![handles[h].ev] = RemoveLast(@, handles[h].cb)]
    /\ handles' = [handles EXCEPT ![h].used = TRUE]
    /\ UNCHANGED <<isConnecting, shouldReconnect, ws, heartbeatInterval, connects, chanVars, delivered, mounted, mounts>>
    /\ UNCHANGED <<apiVars, authVars, isLoading, histVars, obsVars, tokVars>>

\* A frame of type t arrives on the open socket: onmessage parses it and
\* handleMessage emits its event.  A parse error, like an exception of a
\* listener, ends in the catch block of onmessage.
Dispatch(t) ==
    /\ ws = "OPEN"
    /\ delivered' = [type |-> t,
                     event |-> EventOf(t),
                     subs |-> IF EventOf(t) = "none" THEN <<>> ELSE listeners[EventOf(t)],
                     to |-> IF EventOf(t) = "none" THEN <<>> ELSE Invoked(listeners[EventOf(t)]),
                     payload |-> PayloadOf(t)]
    /\ UNCHANGED <<isConnecting, shouldReconnect, ws, heartbeatInterval, connects, chanVars>>
    /\ UNCHANGED <<listeners, handles, mounted, mounts>>
    /\ UNCHANGED <<apiVars, authVars, isLoading, histVars, obsVars, tokVars>>

(***************************************************************************)
(* Specification                                                           *)
(***************************************************************************)

\* What the event loop, the storage and an answering server do for call c.
Resume(c) ==
    \/ AnswerOk(c)
    \/ AnswerError(c)
    \/ Answer401(c)
    \/ GotRefreshToken(c)
    \/ RefreshOk(c)
    \/ Refresh401(c)
    \/ RefreshError(c)
    \/ RefreshStored(c)
    \/ FailLogoutGotToken(c)
    \/ FailLogoutAnswered(c)
    \/ FailLogout401(c)
    \/ FailRemoved(c)

\* The pipeline's steps for the calls in C.
Pipeline(C) ==
    \/ \E c \in C : AnswerOk(c)
    \/ \E c \in C : AnswerError(c)
    \/ \E c \in C : Answer401(c)
    \/ \E c \in C : GotRefreshToken(c)
    \/ \E c \in C : RefreshOk(c)
    \/ \E c \in C : Refresh401(c)
    \/ \E c \in C : RefreshError(c)
    \/ \E c \in C : RefreshStored(c)
    \/ \E c \in C : FailLogoutGotToken(c)
    \/ \E c \in C : FailLogoutAnswered(c)
    \/ \E c \in C : FailLogout401(c)
    \/ \E c \in C : FailRemoved(c)

\* The screens' requests alone: NumReq concurrent business requests, with or
\* without a stored session.
NextPipeline ==
    \/ \E c \in Business : Request(c)
    \/ Pipeline(Business)

SpecPipeline == Init /\ [][NextPipeline]_vars

FairPipeline == SpecPipeline /\ \A c \in Business : WF_vars(Resume(c))

\* The session: login, logout and application start, next to one business request.
SessionCalls == {1, LoginCall, LogoutCall}

Session ==
    \/ AuthLogin
    \/ LoginStoreRefresh
    \/ LoginStoreUser
    \/ LoginStored
    \/ AuthLogout
    \/ LogoutGotToken
    \/ LogoutDone
    \/ InitAuthChecked
    \/ InitAuthLoaded
    \/ ConnectResume

Next ==
    \/ Request(1)
    \/ Pipeline(SessionCalls)
    \/ Session

Spec == Init /\ [][Next]_vars

\* The event loop runs every continuation that is ready, AsyncStorage
\* completes every operation, and the server answers every request.  Nothing
\* obliges the user to start a request, a login or a logout.
Fair ==
    /\ \A c \in SessionCalls : WF_vars(Resume(c))
    /\ WF_vars(LoginStoreRefresh \/ LoginStoreUser \/ LoginStored)
    /\ WF_vars(LogoutGotToken \/ LogoutDone)
    /\ WF_vars(InitAuthChecked \/ InitAuthLoaded)
    /\ WF_vars(ConnectResume)

FairSpec == Spec /\ Fair

\* Logout next to two business requests, after application start.
LogoutCalls == {1, 2, LogoutCall}

NextLogout ==
    \/ \E c \in {1, 2} : Request(c)
    \/ Pipeline(LogoutCalls)
    \/ AuthLogout
    \/ LogoutGotToken
    \/ LogoutDone
    \/ InitAuthChecked
    \/ InitAuthLoaded
    \/ ConnectResume

SpecLogout == Init /\ [][NextLogout]_vars

\* The realtime channel on its own: the application's connect() and
\* disconnect() calls, the storage, the transport and the timers.
NextChannel ==
    \/ CallConnect
    \/ CallDisconnect
    \/ ConnectResume
    \/ SocketOpens
    \/ SocketCloses
    \/ ConnectThrows
    \/ DetachedOpens
    \/ \E st \in Alive : DetachedCloses(st)
    \/ \E i \in 1..MaxSock : TimerFires(i)
    \/ HeartbeatTick
    \/ Pong

SpecChannel == Init /\ [][NextChannel]_vars

\* The transport's failures, with and without a connection-status observer.
NextTransport ==
    \/ CallConnect
    \/ CallDisconnect
    \/ ConnectResume
    \/ SocketOpens
    \/ SocketCloses
    \/ SocketFails
    \/ ObserveConnection
    \/ \E i \in 1..MaxSock : TimerFires(i)

SpecTransport == Init /\ [][NextTransport]_vars

\* Reconnects of the channel while the pipeline rotates the access token.
NextRotation ==
    \/ CallConnect
    \/ ConnectResume
    \/ SocketOpens
    \/ SocketCloses
    \/ \E i \in 1..MaxSock : TimerFires(i)
    \/ Request(1)
    \/ Pipeline({1})

SpecRotation == Init /\ [][NextRotation]_vars

\* The router: subscriptions and frames on a connection that opens.
NextRouter ==
    \/ CallConnect
    \/ ConnectResume
    \/ SocketOpens
    \/ \E e \in SubEvents, cb \in Callbacks : Subscribe(e, cb)
    \/ \E h \in 1..MaxSubs : Unsubscribe(h)
    \/ \E t \in FrameTypes : Dispatch(t)

SpecRouter == Init /\ [][NextRouter]_vars

\* NotificationProvider's subscriptions over its mounts and unmounts.
NextProvider ==
    \/ CallConnect
    \/ ConnectResume
    \/ SocketOpens
    \/ Mount
    \/ Unmount
    \/ \E t \in FrameTypes : Dispatch(t)

SpecProvider == Init /\ [][NextProvider]_vars

\* The storage completes every read and the heartbeat interval keeps elapsing;
\* nothing obliges the transport to open, to fail or to answer.
FairChannel == SpecChannel /\ WF_vars(ConnectResume) /\ WF_vars(HeartbeatTick)

(***************************************************************************)
(* Structure of the reachable states                                       *)
(***************************************************************************)

TypeOK ==
    /\ store \in [auth_token : 0..MaxTok, refresh_token : 0..MaxTok, user_data : 0..MaxTok]
    /\ isRefreshing \in BOOLEAN
    /\ failedQueue \in Seq(Calls)
    /\ \A c \in Calls : sends[c] \in 0..MaxSends /\ hdr[c] \in 0..MaxTok
    /\ \A c \in Calls : result[c] \in {"none", "ok", "error", "raw401", "refreshError"}
    /\ \A c \in Calls : cyc[c] \in {"no", "pending", "replayed", "failed"}
    /\ issued \in 1..MaxTok

\* The flag is up exactly while some call runs a refresh cycle, the queue holds
\* exactly the parked calls, each once, and processQueue only ever meets
\* parked requests of other calls.
CycleShape ==
    /\ isRefreshing <=> \E c \in Calls : pc[c] \in CyclePcs
    /\ Range(failedQueue) = {c \in Calls : pc[c] \in ParkedPcs}
    /\ Len(failedQueue) = Cardinality(Range(failedQueue))
    /\ (\E c \in Calls : pc[c] \in {"refreshSent", "setToken"}) => Range(failedQueue) = Waiters

(***************************************************************************)
(* Claims                                                                  *)
(***************************************************************************)

\* C1: single flight.  At most one call to the refresh endpoint is in flight
\* at any time and at most one call runs a refresh cycle; a 401 that arrives
\* meanwhile is parked and issues no refresh call, so a cycle that reaches the
\* refresh endpoint calls it exactly once, however many calls were parked.
SingleFlight ==
    /\ Cardinality({c \in Calls : pc[c] = "refreshSent"}) <= 1
    /\ Cardinality({c \in Calls : pc[c] \in CyclePcs}) <= 1
    /\ cycleCalls <= 1
    /\ \A c \in Calls : pc[c] \in CyclePcs \ {"getRT"} => cycleCalls = 1
    /\ \A c \in Calls : pc[c] = "queued" /\ cyc[c] = "pending" /\ isRefreshing
          => \E d \in Calls : d # c /\ pc[d] \in CyclePcs

\* C1 witness: the refresh call is in flight while every other request has
\* received its 401 and is parked.
SingleFlightWitness ==
    \E c \in Business :
        /\ pc[c] = "refreshSent"
        /\ Waiters = Business \ {c}
        /\ cycleCalls = 1

\* C2 (as claimed): once a refresh cycle is over, every call that hit 401
\* during it has the same outcome, all replayed or all failed, on every path
\* of the cycle.
SameOutcome ==
    ~isRefreshing =>
        \A c, d \in Calls :
            cyc[c] # "no" /\ cyc[d] # "no" =>
                cyc[c] = cyc[d] /\ cyc[c] \in {"replayed", "failed"}

\* C3 (as claimed): every request goes to the server at most twice, and a
\* request that was replayed after a refresh never starts another refresh.
AtMostOneRetry ==
    \A c \in Calls :
        /\ sends[c] <= 2
        /\ ~(relTok[c] # 0 /\ pc[c] \in CyclePcs)

\* C4 (as claimed): a request replayed after a successful refresh that gets
\* 401 again ends with a session error, not with the 401 itself, and does not
\* enter the refresh coordinator again.
ReplayedThenExpired ==
    \A c \in Calls :
        relTok[c] # 0 =>
            /\ result[c] # "raw401"
            /\ pc[c] \notin CyclePcs \cup {"queued"}

\* C5 (as claimed): no caller of a business request receives the raw 401.
NoRaw401 == \A c \in Business : result[c] # "raw401"

\* C6 (as claimed): every replay released by a successful refresh carries the
\* access token which that refresh returned.
ReplayCarriesRefreshedToken ==
    \A c \in Calls : relTok[c] # 0 => hdr[c] = relTok[c]

\* C7 (as claimed): whenever the refresh call has failed, whatever the refresh
\* and logout endpoints answer, the credentials are eventually cleared and
\* isRefreshing eventually returns to false.
RefreshFailed ==
    \E c \in Calls :
        pc[c] \in {"refreshParked", "failGetTok", "failLogoutSent", "failLogoutParked", "failRemove"}

RefreshFailureCleansUp == RefreshFailed ~> (~isRefreshing /\ store = Empty)

\* C8 (as claimed): no waiter stays in failedQueue once isRefreshing has
\* returned to false.
NoWaiterLeft == ~isRefreshing => failedQueue = <<>>

\* C9 (as claimed): every call of logout() eventually completes, with the
\* application unauthenticated, whatever the logout endpoint answers and
\* whether or not a refresh is in flight.
LogoutCompletes ==
    (pc[LogoutCall] \notin {"idle", "done"}) ~> (pc[LogoutCall] = "done" /\ ~isAuthenticated)

\* C10 (as claimed): the store holds both the access token and the refresh
\* token, or neither.
TokenPairAtomic == (store.auth_token = 0) <=> (store.refresh_token = 0)

\* C11 (as claimed): once the refresh failure handler has cleared the
\* credential store, AuthContext returns to the unauthenticated state,
\* isAuthenticated false and user null, without the user having to log out or
\* in again.
SessionTerminated == \E c \in Calls : pc[c] = "failRemove"

RefreshFailureUnauthenticates ==
    (SessionTerminated /\ pc[LogoutCall] = "idle")
        ~> ((~isAuthenticated /\ user = 0) \/ pc[LogoutCall] # "idle" \/ store # Empty)

\* C12 (as claimed): every waiter that was in failedQueue when logout() was
\* called has been rejected by the time logout() has completed.
LogoutCancelsWaiters ==
    pc[LogoutCall] = "done" => \A q \in atLogout : result[q] = "refreshError"

\* C13 (as claimed): from disconnect() until the next call of connect() the
\* channel has no connection: this.ws stays null, whatever timer or connect()
\* call was pending when disconnect() ran.
NoConnectionAfterDisconnect == disconnected => ws = "null"

\* C14 (as claimed): when a heartbeat interval has elapsed on the open
\* connection without a pong for the ping sent, the channel leaves Open.
MissedPongDetected == (ws = "OPEN" /\ missedPong) ~> (ws # "OPEN")

\* C15 (as claimed): whenever the connection of this.ws closes without
\* disconnect() having closed it, a reconnect timer is armed or the exhaustion
\* event is emitted.
UnexpectedCloseReconnects ==
    [][(ws \in {"CONNECTING", "OPEN"} /\ ws' = "CLOSED")
          => (Len(timers') = Len(timers) + 1 \/ lastEvent' = "max_reconnect_attempts_reached")]_vars

\* C16: every reconnect timer that is armed is the next attempt n of the
\* current run of failures, n <= maxReconnectAttempts, with delay
\* reconnectInterval * 2^(n-1), one of 1000, 2000, 4000, 8000, 16000 ms; so no
\* timer is armed once maxReconnectAttempts attempts are used.
BackoffSchedule ==
    [][Len(timers') > Len(timers) =>
          /\ Len(timers') = Len(timers) + 1
          /\ reconnectAttempts' = reconnectAttempts + 1
          /\ reconnectAttempts' <= maxReconnectAttempts
          /\ timers'[Len(timers')].n = reconnectAttempts'
          /\ timers'[Len(timers')].delay = reconnectInterval * 2^(reconnectAttempts' - 1)
          /\ timers'[Len(timers')].delay \in {1000, 2000, 4000, 8000, 16000}]_vars

\* C16 witness: the timer of the last attempt is armed, 16000 ms.
BackoffWitness ==
    /\ reconnectAttempts = maxReconnectAttempts
    /\ timers = <<[n |-> 5, delay |-> 16000]>>

\* C18 (as claimed): at most one socket with the service's handlers is
\* connecting, open or closing.
SocketsAlive ==
    (IF ws \in Alive THEN 1 ELSE 0)
        + detached["CONNECTING"] + detached["OPEN"] + detached["CLOSING"]

OneConnection == SocketsAlive <= 1

\* C17: a connection that fails when maxReconnectAttempts attempts are used
\* makes the channel emit max_reconnect_attempts_reached, arm no timer and
\* start no connect(); from the exhausted channel, with no timer left, only a
\* connect() call of the application starts a connection attempt, and such a
\* call does start one.
ChannelIdle == timers = <<>> /\ connects = <<>> /\ SocketsAlive = 0

FrameReachesAll == delivered.to = delivered.subs

\* C20 (as claimed): calling an unsubscribe handle again removes no
\* subscription.
UnsubscribeIdempotent ==
    [][(\E h \in 1..MaxSubs : h <= Len(handles) /\ handles[h].used /\ Unsubscribe(h))
          => listeners' = listeners]_vars

\* C21 (as claimed): a frame of no recognized type, or one that is not JSON,
\* reaches no subscriber callback of any event name.
UnknownFrameDropped == delivered.type \in {"unknown", "malformed"} => delivered.to = <<>>

\* C22 (as claimed): a frame of a category is emitted on the event of that
\* category only, with its data field as payload, to all the listeners
\* registered for it at that moment, in registration order; a pong frame
\* reaches nobody.
FrameRouted ==
    /\ delivered.type \in Categories =>
          /\ delivered.event = delivered.type
          /\ delivered.payload = "data"
          /\ delivered.to = delivered.subs
    /\ delivered.type = "pong" => delivered.to = <<>> /\ delivered.event = "none"

\* C23 (as claimed): while NotificationProvider is not mounted none of its
\* callbacks is registered, and no frame is handled more than once by it.
ProviderSubscriptionsEnd ==
    /\ ~mounted => \A e \in EventNames : ProviderCb \notin Range(listeners[e])
    /\ Cardinality({i \in 1..Len(delivered.to) : delivered.to[i] = ProviderCb}) <= 1

\* C24: a request answered with a status other than 401, or not answered at
\* all, leaves the pipeline in one step with that error: no refresh call is
\* made, isRefreshing and failedQueue stay as they were, and so does the
\* credential store (ApiService.logout, which ignores the error, goes on to
\* its own multiRemove).
PassThrough ==
    [][\A c \in Calls :
          (pc[c] = "sent" /\ pc'[c] # "sent" /\ status'[c] \in OtherStatuses) =>
              /\ result'[c] = "error"
              /\ pc'[c] = AfterPipeline(c, "error")
              /\ isRefreshing' = isRefreshing
              /\ failedQueue' = failedQueue
              /\ c # LogoutCall => store' = store
              /\ cycleCalls' = cycleCalls
              /\ \A q \in Calls : pc'[q] = "refreshSent" => pc[q] = "refreshSent"]_vars

\* A failure other than 401 reached its caller while a refresh was in progress
\* with a request parked.
PassThroughWitness ==
    \E c \in Business :
        /\ status[c] \in OtherStatuses
        /\ result[c] = "error"
        /\ pc[c] = "done"
        /\ isRefreshing
        /\ failedQueue # <<>>

\* C25 (as claimed): every step the login call takes after a failure answer
\* of the login endpoint either reads storage or hands that failure to the
\* caller; it makes no refresh call, leaves the credential store alone, keeps
\* the application unauthenticated and opens no channel.
LoginFailureUntouched ==
    [][(pc[LoginCall] # "idle" /\ pc'[LoginCall] # pc[LoginCall] /\ 
        status'[LoginCall] \in OtherStatuses \cup {401}) =>
          /\ pc'[LoginCall] \in {"getRT", "done"}
          /\ pc'[LoginCall] = "done" => result'[LoginCall] \in {"error", "raw401"}
          /\ cycleCalls' = cycleCalls
          /\ store' = store
          /\ user' = 0 /\ ~isAuthenticated'
          /\ connects' = connects /\ ws' = ws]_vars

\* C26: a processQueue call settles the parked calls in the order of the
\* queue, which is the order their 401 answers arrived in, and all with the
\* same outcome: every one replayed, or every one rejected with the refresh
\* error.
WaitersReleasedInOrder ==
    [][(failedQueue # <<>> /\ failedQueue' = <<>>) =>
          /\ Len(released') = Len(failedQueue)
          /\ \A i \in 1..Len(failedQueue) : released'[i].call = failedQueue[i]
          /\ \A i, j \in 1..Len(released') : released'[i].outcome = released'[j].outcome
          /\ \A i \in 1..Len(released') :
                IF released'[i].outcome = "resolved"
                THEN pc'[released'[i].call] = "sent" /\ result'[released'[i].call] = result[released'[i].call]
                ELSE result'[released'[i].call] = "refreshError"]_vars

\* Two parked calls have been rejected together.
WaitersReleasedWitness ==
    /\ Len(released) >= 2
    /\ released[1].call # released[2].call
    /\ released[1].outcome = "rejected"

\* C27 (as claimed): handling the transport's error and close events raises
\* no exception out of the socket's handlers, with or without a listener of
\* 'error'.  (The events are emitted under 'error' and 'disconnected', names no
\* data-category subscription uses.)
TransportErrorContained == ~raised

\* C28 (as claimed): after disconnect() no reconnect timer and no heartbeat
\* timer is pending, and while the connection is closed no heartbeat timer is
\* active.
TimersCancelled ==
    /\ disconnected => timers = <<>> /\ ~heartbeatInterval
    /\ ws = "CLOSED" => ~heartbeatInterval

\* C29 (as claimed): while the service's current socket is open the heartbeat
\* timer is active, also after events of a discarded socket were handled.
HeartbeatWhileOpen == ws = "OPEN" => heartbeatInterval

\* C30: reconnectAttempts stays between 0 and maxReconnectAttempts, whatever
\* the order of closes, failing connect() calls, timers, connect() and
\* disconnect().
AttemptsBounded == reconnectAttempts \in 0..maxReconnectAttempts

\* C30 witness: the counter stands at its maximum and a connect() call that
\* threw is among the attempts counted.
AttemptsWitness ==
    /\ reconnectAttempts = maxReconnectAttempts
    /\ thrown > 0
    /\ disconnected

\* C31: every socket that opens resets reconnectAttempts to 0, every close
\* that arms a reconnect timer adds exactly one to it, and the timer armed by
\* the close of an open connection carries the base delay.
AttemptsResetOnOpen ==
    [][/\ (SocketOpens \/ DetachedOpens) => reconnectAttempts' = 0
       /\ ((SocketCloses \/ \E st \in Alive : DetachedCloses(st)) /\ Len(timers') > Len(timers))
             => reconnectAttempts' = reconnectAttempts + 1
       /\ (ws = "OPEN" /\ ws' = "CLOSED" /\ Len(timers') > Len(timers))
             => /\ timers'[Len(timers')].n = 1
                /\ timers'[Len(timers')].delay = reconnectInterval]_vars

\* C31 witness: three sockets were created and the counter stands at 1, so a
\* connection opened and then closed; the timer armed last is that of
\* attempt 1, with the base delay.
AttemptsResetWitness ==
    /\ ws = "CLOSED"
    /\ shouldReconnect
    /\ created >= 3
    /\ thrown = 0
    /\ reconnectAttempts = 1
    /\ timers # <<>>
    /\ timers[Len(timers)] = [n |-> 1, delay |-> reconnectInterval]

\* C32: a connect() call that goes ahead reads the access token the store
\* holds at that moment, whoever calls it, and the socket it creates is
\* authenticated with the token read; the token stored when the reconnect was
\* scheduled plays no part.
ConnectUsesCurrentToken ==
    [][/\ Len(connects') > Len(connects) => connects'[Len(connects')].tok = store.auth_token
       /\ created' > created => wsAuth' = Head(connects) /\ wsAuth'.tok # 0]_vars

\* C32 witness: a reconnect timer armed under one token started the attempt
\* after the rotation, and the socket carries the rotated token.
ConnectUsesCurrentTokenWitness ==
    /\ ws = "CONNECTING"
    /\ wsAuth.caller = "timer"
    /\ schedTok # 0
    /\ wsAuth.tok > schedTok
    /\ wsAuth.tok = store.auth_token

\* C33 (as claimed): once logout() has completed and every request has
\* settled, the store holds no access token.
LogoutLeavesNoToken ==
    (pc[LogoutCall] = "done" /\ \A c \in Business : pc[c] \in {"idle", "done"})
        => store.auth_token = 0

\* C34 (as claimed): with a server that answers every request, isRefreshing
\* always returns to false and the call that started a refresh always gets a
\* result.
RefreshTerminates ==
    /\ isRefreshing ~> ~isRefreshing
    /\ \A c \in Business : (pc[c] = "getRT") ~> (result[c] # "none")

\* C35 (as claimed): a connect() call made after disconnect(), with an access
\* token stored, no connection and no other connect() under way, starts a
\* connection attempt.
ConnectAfterDisconnectStarts ==
    [][(disconnected /\ ~disconnected' /\ store.auth_token # 0 /\ ws = "null" /\ connects = <<>>)
          => Len(connects') = 1 /\ isConnecting']_vars

\* C36 (as claimed): between disconnect() and the next connect() the close
\* event of the socket that disconnect() discarded changes nothing of the
\* channel's state: isConnecting, the heartbeat, the attempt counter and the
\* reconnect timers stay as disconnect() left them.
DiscardedSocketIsSilent ==
    [][(disconnected /\ DetachedCloses("CLOSING"))
          => UNCHANGED <<isConnecting, heartbeatInterval, reconnectAttempts, timers>>]_vars

\* C37 (as claimed): a reconnect loop does not stop silently.  While the
\* connection is closed unexpectedly, disconnect() was not called and the
\* exhaustion event was not emitted, a reconnect timer or a connect() call is
\* pending.
ReconnectLoopGoesOn ==
    (ws = "CLOSED" /\ shouldReconnect /\ lastEvent # "max_reconnect_attempts_reached")
        => (timers # <<>> \/ connects # <<>>)

\* C38 (as claimed): at most one reconnect timer is pending.
OneReconnectTimer == Len(timers) <= 1

\* C39 (as claimed): a connect() call made while the service's socket is
\* connecting or open starts nothing: no token read, no socket, and
\* reconnectAttempts and the heartbeat stay as they are.
ConnectIdempotent ==
    [][(CallConnect /\ ws \in {"CONNECTING", "OPEN"})
          => /\ connects' = connects
             /\ created' = created
             /\ UNCHANGED <<isConnecting, reconnectAttempts, heartbeatInterval>>]_vars

\* C40: the steps of a successful refresh, from the answer of the refresh
\* endpoint to the release of the waiters, change the stored access token and
\* nothing else: the stored refresh token and user data stay as they were.
RefreshKeepsRest ==
    [][\A c \in Calls :
          \/ pc[c] = "refreshSent" /\ pc'[c] = "setToken"
          \/ pc[c] = "setToken" /\ pc'[c] # "setToken"
          => /\ store'.refresh_token = store.refresh_token
             /\ store'.user_data = store.user_data
             /\ pc'[c] = "setToken" => store'.auth_token = issued' /\ store'.auth_token # store.auth_token]_vars

\* C40 witness: a refresh cycle has ended with the request that started it
\* replayed; the access token is a new one, the rest of the session is the
\* stored one.
RefreshKeepsRestWitness ==
    /\ ~isRefreshing
    /\ \E c \in Business : cyc[c] = "replayed" /\ relTok[c] = store.auth_token
    /\ store.auth_token > 1
    /\ store.refresh_token = 1
    /\ store.user_data = 1

====
